---- MODULE Spec2Model ----
(***************************************************************************)
(* Model of carbon-core's instruction module (crates/core/src/instruction.rs).*)
(*                                                                         *)
(*  - the Call-Tree Builder, impl From<InstructionsWithMetadata> for        *)
(*    NestedInstructions, one loop iteration per step  (SpecBuild);         *)
(*  - InstructionPipe::run, the recursive decode / process / recurse        *)
(*    traversal, with an explicit call stack, one frame per activation      *)
(*    of run  (Spec; FairSpec with the run polled to completion);           *)
(*  - two pipes run over one tree by a host that polls their runs in any    *)
(*    order  (SpecTwo).                                                     *)
(*                                                                         *)
(* Rust vectors are 0-based, TLA+ sequences 1-based: element i of a Vec is  *)
(* element i + 1 of the sequence that models it.                            *)
(***************************************************************************)
EXTENDS Integers, Sequences, FiniteSets

(* ----------------------------- bounds ---------------------------------- *)

\* longest flat input list handed to the builder
MaxLen == 4

\* largest position index carried by an input record
MaxIndex == 2

\* largest number of nodes of a tree handed to InstructionPipe::run
MaxNodes == 4

(* ----------------------------- state ----------------------------------- *)

VARIABLES
    input,        \* the builder's argument `instructions`
    bpos,         \* 1-based position of the for loop over `instructions`
    nested_ixs,   \* the builder's local `nested_ixs`
    bpc,          \* "loop" | "done" (returned nested_ixs) | "panic" (index out of bounds) | "idle"
    tree,         \* the NestedInstructions the pipe is run over
    stack,        \* activations of InstructionPipe::run, innermost last
    ret,          \* value just returned by an activation of run, not yet consumed
    log,          \* calls made to the decoder and the processor, and returns of run
    dpos,         \* 1-based position of the caller's loop over the roots
    dpc,          \* the caller: "loop" | "call" | "done" | "idle"
    outcome,      \* what the caller ends with: None, Ok or an error
    cur,          \* the pipe whose run the host is polling: 1 | 2
    other         \* stack, ret, log, dpos, dpc, outcome of the pipe not being polled

bvars == <<input, bpos, nested_ixs, bpc>>

pvars == <<tree, stack, ret, log, dpos, dpc, outcome>>

hvars == <<cur, other>>

vars == <<input, bpos, nested_ixs, bpc, tree, stack, ret, log, dpos, dpc, outcome,
          cur, other>>

(* ------------------------------ data ----------------------------------- *)

\* Programs an instruction may address.
Programs == {"p", "q"}

\* solana_instruction::Instruction: the program addressed and the payload
\* (the account list is left out).
Instruction(program_id, data) == [program_id |-> program_id, data |-> data]

\* Error values a processor may report (CarbonResult's Err side).
Errors == {"e1", "e2"}

\* Stack heights of input records: 1 is the root level; the code compares a
\* stack height with 1 only, so 2 and 3 stand for every deeper level.
StackHeights == {1, 2, 3}

\* InstructionMetadata: stack_height and index (the transaction metadata is
\* the same for every record of one transaction and is left out).
InstructionMetadata(stack_height, index) ==
    [stack_height |-> stack_height, index |-> index]

\* The contexts an input record may carry.
Metadatas ==
    { InstructionMetadata(h, i) : h \in StackHeights, i \in 0..MaxIndex }

\* The flat input lists (InstructionsWithMetadata) the builder is applied to:
\* any contexts, and every record an instruction of its own (its payload is
\* the record's place in the list).
Inputs ==
    { [k \in 1..Len(ms) |-> [metadata |-> ms[k], instruction |-> Instruction("p", k)]] :
        ms \in UNION { [1..n -> Metadatas] : n \in 0..MaxLen } }

\* Option::None, also "nothing returned yet".
None == [tag |-> "None"]

\* CarbonResult<()>: Ok(()) or Err(e).
Ok == [tag |-> "Ok"]

Err(e) == [tag |-> "Err", err |-> e]

\* A pipe the caller has not started on.
Fresh == [stack |-> << >>, ret |-> None, log |-> << >>, dpos |-> 1, dpc |-> "loop",
          outcome |-> None]

\* NestedInstructions::default(): no nodes.
Default == << >>

\* Variant: the new node goes in front.
PushFront(nested_ixs_, nested_instruction) == <<nested_instruction>> \o nested_ixs_

\* NestedInstructions::push.
Push(nested_ixs_, nested_instruction) == Append(nested_ixs_, nested_instruction)

\* The NestedInstruction built at the top of the builder's loop body.
NewNode(metadata, instruction) ==
    [metadata |-> metadata,
     instruction |-> instruction,
     inner_instructions |-> Default]

\* Variant: only the stack height decides.
IsRootByHeight(metadata) == metadata.stack_height = 1

\* "compose root level of ixs": the test of the builder's if.
IsRoot(metadata) == metadata.stack_height = 1 \/ metadata.index = 0

\* Whether nested_ixs[index as usize] is inside the vector.
InBounds(nested_ixs_, index) == index < Len(nested_ixs_)

\* Variant: the child replaces the root's children instead of joining them.
PushInnerReplacing(nested_ixs_, index, nested_instruction) ==
    [nested_ixs_ EXCEPT ![index + 1].inner_instructions = <<nested_instruction>>]

\* Variant: the child goes in front of the root's children.
PushInnerFront(nested_ixs_, index, nested_instruction) ==
    [nested_ixs_ EXCEPT ![index + 1].inner_instructions = <<nested_instruction>> \o @]

\* Variant: a record deeper than stack height 2 goes under the root's latest
\* child instead of under the root.
PushInnerNesting(nested_ixs_, index, nested_instruction) ==
    LET kids == nested_ixs_[index + 1].inner_instructions
    IN  IF nested_instruction.metadata.stack_height > 2 /\ kids # << >>
        THEN [nested_ixs_ EXCEPT
                ![index + 1].inner_instructions[Len(kids)].inner_instructions =
                    Append(@, nested_instruction)]
        ELSE [nested_ixs_ EXCEPT
                ![index + 1].inner_instructions = Append(@, nested_instruction)]

\* Variant: the index names a record of the input, and the child goes under
\* the root that record is, or is a child of.
PushInnerByInputPlace(nested_ixs_, index, nested_instruction) ==
    LET named == input[index + 1].instruction
        made == { r \in 1..Len(nested_ixs_) :
                    \/ nested_ixs_[r].instruction = named
                    \/ \E c \in 1..Len(nested_ixs_[r].inner_instructions) :
                          nested_ixs_[r].inner_instructions[c].instruction = named }
        r == IF made = {} THEN index + 1 ELSE CHOOSE x \in made : TRUE
    IN  [nested_ixs_ EXCEPT ![r].inner_instructions = Append(@, nested_instruction)]

\* nested_ixs[index as usize].inner_instructions.push(nested_instruction)
PushInner(nested_ixs_, index, nested_instruction) ==
    [nested_ixs_ EXCEPT ![index + 1].inner_instructions = Push(@, nested_instruction)]

(* ------------------------ Call-Tree Builder ---------------------------- *)

\* No pipe is running.
PipeIdle ==
    /\ tree = Default
    /\ stack = << >>
    /\ ret = None
    /\ log = << >>
    /\ dpos = 1
    /\ dpc = "idle"
    /\ outcome = None
    /\ cur = 1
    /\ other = Fresh

InitBuild ==
    /\ input \in Inputs
    /\ bpos = 1
    /\ nested_ixs = Default
    /\ bpc = "loop"
    /\ PipeIdle

\* One iteration of the for loop whose record is a root.
BuildRoot ==
    /\ bpc = "loop"
    /\ bpos <= Len(input)
    /\ LET metadata == input[bpos].metadata
           nested_instruction == NewNode(metadata, input[bpos].instruction)
       IN  /\ IsRoot(metadata)
           /\ nested_ixs' = Push(nested_ixs, nested_instruction)
    /\ bpos' = bpos + 1
    /\ UNCHANGED <<input, bpc>>
    /\ UNCHANGED pvars
    /\ UNCHANGED hvars

\* One iteration of the for loop whose record goes under an existing root.
BuildInner ==
    /\ bpc = "loop"
    /\ bpos <= Len(input)
    /\ LET metadata == input[bpos].metadata
           nested_instruction == NewNode(metadata, input[bpos].instruction)
       IN  /\ ~IsRoot(metadata)
           /\ InBounds(nested_ixs, metadata.index)
           /\ nested_ixs' = PushInner(nested_ixs, metadata.index, nested_instruction)
    /\ bpos' = bpos + 1
    /\ UNCHANGED <<input, bpc>>
    /\ UNCHANGED pvars
    /\ UNCHANGED hvars

\* Variant: a record whose index is out of range is skipped.
BuildPanicSkipping ==
    /\ bpc = "loop"
    /\ bpos <= Len(input)
    /\ LET metadata == input[bpos].metadata
       IN  /\ ~IsRoot(metadata)
           /\ ~InBounds(nested_ixs, metadata.index)
    /\ bpos' = bpos + 1
    /\ UNCHANGED <<input, bpc, nested_ixs>>
    /\ UNCHANGED pvars
    /\ UNCHANGED hvars

\* One iteration of the for loop whose index is out of range: the slice
\* index panics and from() returns nothing.
BuildPanic ==
    /\ bpc = "loop"
    /\ bpos <= Len(input)
    /\ LET metadata == input[bpos].metadata
       IN  /\ ~IsRoot(metadata)
           /\ ~InBounds(nested_ixs, metadata.index)
    /\ bpc' = "panic"
    /\ UNCHANGED <<input, bpos, nested_ixs>>
    /\ UNCHANGED pvars
    /\ UNCHANGED hvars

\* Variant: the first record is looked at before the loop is entered.
BuildReturnPeekingFirst ==
    /\ bpc = "loop"
    /\ bpos > Len(input)
    /\ bpc' = IF Len(input) = 0 THEN "panic" ELSE "done"
    /\ UNCHANGED <<input, bpos, nested_ixs>>
    /\ UNCHANGED pvars
    /\ UNCHANGED hvars

\* The loop is over: from() returns nested_ixs.
BuildReturn ==
    /\ bpc = "loop"
    /\ bpos > Len(input)
    /\ bpc' = "done"
    /\ UNCHANGED <<input, bpos, nested_ixs>>
    /\ UNCHANGED pvars
    /\ UNCHANGED hvars

NextBuild == BuildRoot \/ BuildInner \/ BuildPanic \/ BuildReturn

SpecBuild == InitBuild /\ [][NextBuild]_vars

\* Longer input lists: the first record is the transaction's first outer
\* instruction (stack height 1, index 0), the others carry stack height 1 or
\* 2 and any index.  They are long enough for a root to stand at another
\* place of the tree than its record does in the input.
LongInputs ==
    { [k \in 1..(Len(ms) + 1) |->
         [metadata |-> IF k = 1 THEN InstructionMetadata(1, 0) ELSE ms[k - 1],
          instruction |-> Instruction("p", k)]] :
        ms \in UNION { [1..n -> { InstructionMetadata(h, i) : h \in {1, 2}, i \in 0..MaxIndex }] :
                         n \in 0..MaxLen } }

InitBuildLong ==
    /\ input \in LongInputs
    /\ bpos = 1
    /\ nested_ixs = Default
    /\ bpc = "loop"
    /\ PipeIdle

SpecBuildLong == InitBuildLong /\ [][NextBuild]_vars

(* ------------------------- trees and paths ----------------------------- *)

\* A node of a tree is named by its path: the 1-based positions to follow
\* from the root sequence down to it.

\* Forests of exactly n nodes whose first root is at position k of its
\* sequence, h levels down.  A node's context carries its level as stack
\* height and its position among its siblings as index.
RECURSIVE Forests(_, _, _)
Forests(n, h, k) ==
    IF n = 0 THEN { << >> }
    ELSE UNION { { <<[metadata |-> InstructionMetadata(h, k),
                      instruction |-> Instruction(x, 0),
                      inner_instructions |-> c]>> \o rest :
                     x \in Programs,
                     c \in Forests(m - 1, h + 1, 0),
                     rest \in Forests(n - m, h, k + 1) } : m \in 1..n }

\* The trees InstructionPipe::run is applied to.
Trees == UNION { Forests(n, 1, 0) : n \in 0..MaxNodes }

\* The node of forest f at path.
RECURSIVE NodeAt(_, _)
NodeAt(f, path) ==
    IF Len(path) = 1 THEN f[path[1]]
    ELSE NodeAt(f[path[1]].inner_instructions, Tail(path))

(* ------------------------- InstructionPipe ----------------------------- *)

\* The programs the decoder of pipe c recognises: each pipe has a decoder of
\* its own.
DecoderOf(c) == IF c = 1 THEN {"p"} ELSE {"q"}

\* Variant: every pipe decodes with the decoder of the first pipe.
PipeDecoderOfFirst == DecoderOf(1)

\* The decoder of the pipe being polled.
PipeDecoder == DecoderOf(cur)

\* Variant: the decoder takes every instruction for one of its own.
decode_instruction_any(decoder, instruction) ==
    [tag |-> "Some", program_id |-> instruction.program_id,
     data |-> <<"decoded", instruction.data>>]

\* InstructionDecoder::decode_instruction: Some(DecodedInstruction) for an
\* instruction of a recognised program, None otherwise.
decode_instruction(decoder, instruction) ==
    IF instruction.program_id \in decoder
    THEN [tag |-> "Some", program_id |-> instruction.program_id,
          data |-> <<"decoded", instruction.data>>]
    ELSE None

\* Variant: the processor is handed a fresh, empty NestedInstructions.
ProcessorInputWithoutInner(nested_instruction, decoded_instruction) ==
    <<nested_instruction.metadata, decoded_instruction, Default>>

\* The tuple run hands to the processor: clones of the node's metadata and
\* inner instructions around the decoded instruction.
ProcessorInput(nested_instruction, decoded_instruction) ==
    <<nested_instruction.metadata,
      decoded_instruction,
      nested_instruction.inner_instructions>>

\* Variant: an error is reported as success.
QuestionSwallowing(r) == Ok

\* Variant: an error is replaced by the pipe's own error value.
QuestionReplacing(r) == Err("e1")

\* The ? operator on a CarbonResult inside run: the error is converted by the
\* identity From and returned.
Question(r) == r

\* Variant: the processor future is not awaited.
AfterProcessCallDetached == "iter"

\* Where run goes once the processor future has been created: it awaits it.
AfterProcessCall == "await"

\* Variant: the loop over the children skips every other child.
NextChildSkipping(i) == i + 2

\* The for loop over inner_instructions.iter() moves to the next child.
NextChild(i) == i + 1

\* A fresh activation of run on the node at path.
Frame(path) == [node |-> path, pc |-> "decode", decoded |-> None, arg |-> None, i |-> 1]

Top == stack[Len(stack)]

SetTop(f) == [stack EXCEPT ![Len(stack)] = f]

Pop == SubSeq(stack, 1, Len(stack) - 1)

Init ==
    /\ tree \in Trees
    /\ stack = << >>
    /\ ret = None
    /\ log = << >>
    /\ dpos = 1
    /\ dpc = "loop"
    /\ outcome = None
    /\ input = << >>
    /\ bpos = 1
    /\ nested_ixs = Default
    /\ bpc = "idle"
    /\ cur = 1
    /\ other = Fresh

\* Variant: a decode miss returns Ok(()) at once, children unvisited.
RunDecodeMissReturns ==
    /\ stack # << >>
    /\ Top.pc = "decode"
    /\ LET d == decode_instruction(PipeDecoder, NodeAt(tree, Top.node).instruction)
       IN  IF d # None
           THEN /\ log' = Append(log, [kind |-> "decode", node |-> Top.node, res |-> d])
                /\ stack' = SetTop([Top EXCEPT !.decoded = d, !.pc = "process"])
                /\ ret' = ret
           ELSE /\ log' = log \o <<[kind |-> "decode", node |-> Top.node, res |-> d],
                                   [kind |-> "ret", node |-> Top.node, res |-> Ok]>>
                /\ stack' = Pop
                /\ ret' = Ok
    /\ UNCHANGED <<tree, dpos, dpc, outcome>>
    /\ UNCHANGED bvars
    /\ UNCHANGED hvars

\* run: self.decoder.decode_instruction(&nested_instruction.instruction)
RunDecode ==
    /\ stack # << >>
    /\ Top.pc = "decode"
    /\ LET d == decode_instruction(PipeDecoder, NodeAt(tree, Top.node).instruction)
       IN  /\ log' = Append(log, [kind |-> "decode", node |-> Top.node, res |-> d])
           /\ stack' = SetTop([Top EXCEPT !.decoded = d,
                                          !.pc = IF d # None THEN "process" ELSE "iter"])
    /\ UNCHANGED <<tree, ret, dpos, dpc, outcome>>
    /\ UNCHANGED bvars
    /\ UNCHANGED hvars

\* run: self.processor.process((metadata.clone(), decoded, inner.clone()), ..)
RunProcess ==
    /\ stack # << >>
    /\ Top.pc = "process"
    /\ log' = Append(log, [kind |-> "process", node |-> Top.node,
                           arg |-> ProcessorInput(NodeAt(tree, Top.node), Top.decoded)])
    /\ stack' = SetTop([Top EXCEPT !.pc = AfterProcessCall,
                                   !.arg = ProcessorInput(NodeAt(tree, Top.node), Top.decoded)])
    /\ UNCHANGED <<tree, ret, dpos, dpc, outcome>>
    /\ UNCHANGED bvars
    /\ UNCHANGED hvars

\* What a processor may do to the tuple it was handed, which it owns: here it
\* renumbers the context and drops the children.
Scribbled(arg) == <<[arg[1] EXCEPT !.index = @ + 1], arg[2], Default>>

\* The tree with the context and the children of the node at path replaced.
RECURSIVE WithNodeAt(_, _, _, _)
WithNodeAt(f, path, metadata, inner) ==
    IF Len(path) = 1
    THEN [f EXCEPT ![path[1]].metadata = metadata,
                   ![path[1]].inner_instructions = inner]
    ELSE [f EXCEPT ![path[1]].inner_instructions =
                      WithNodeAt(@, Tail(path), metadata, inner)]

\* Variant: the tuple shares the node's context and children with the tree,
\* so what the processor writes into the tuple is written into the tree.
TreeAfterProcessorWriteShared(t, path, written) ==
    WithNodeAt(t, path, written[1], written[3])

\* The tree once the processor has written into its tuple: the tuple holds
\* clones of the node's metadata and inner_instructions, so the tree is as it
\* was.
TreeAfterProcessorWrite(t, path, written) == t

\* The processor, while it is awaited, writes into the tuple it was handed.
ProcessorTouches ==
    /\ stack # << >>
    /\ Top.pc = "await"
    /\ Top.arg = ProcessorInput(NodeAt(tree, Top.node), Top.decoded)
    /\ stack' = SetTop([Top EXCEPT !.arg = Scribbled(@)])
    /\ tree' = TreeAfterProcessorWrite(tree, Top.node, Scribbled(Top.arg))
    /\ UNCHANGED <<ret, log, dpos, dpc, outcome>>
    /\ UNCHANGED bvars
    /\ UNCHANGED hvars

\* run: .await of the processor yields Ok(()).
ProcessOk ==
    /\ stack # << >>
    /\ Top.pc = "await"
    /\ log' = Append(log, [kind |-> "ok", node |-> Top.node])
    /\ stack' = SetTop([Top EXCEPT !.pc = "iter", !.arg = None])
    /\ UNCHANGED <<tree, ret, dpos, dpc, outcome>>
    /\ UNCHANGED bvars
    /\ UNCHANGED hvars

\* run: .await of the processor yields Err(e); ? returns it from run.
ProcessErr ==
    /\ stack # << >>
    /\ Top.pc = "await"
    /\ \E e \in Errors :
         LET r == Question(Err(e))
         IN  /\ log' = log \o <<[kind |-> "fail", node |-> Top.node, err |-> e],
                                [kind |-> "ret", node |-> Top.node, res |-> r]>>
             /\ ret' = r
    /\ stack' = Pop
    /\ UNCHANGED <<tree, dpos, dpc, outcome>>
    /\ UNCHANGED bvars
    /\ UNCHANGED hvars

\* run: the for loop over inner_instructions has a next child: self.run(child)
RunIterNext ==
    /\ stack # << >>
    /\ Top.pc = "iter"
    /\ Top.i <= Len(NodeAt(tree, Top.node).inner_instructions)
    /\ stack' = Append(SetTop([Top EXCEPT !.pc = "child"]),
                       Frame(Append(Top.node, Top.i)))
    /\ UNCHANGED <<tree, ret, log, dpos, dpc, outcome>>
    /\ UNCHANGED bvars
    /\ UNCHANGED hvars

\* Variant: at the end of the for loop run stays pending and never returns.
RunIterEndStalling ==
    /\ stack # << >>
    /\ Top.pc = "iter"
    /\ Top.i > Len(NodeAt(tree, Top.node).inner_instructions)
    /\ UNCHANGED vars

\* run: the for loop is over: Ok(())
RunIterEnd ==
    /\ stack # << >>
    /\ Top.pc = "iter"
    /\ Top.i > Len(NodeAt(tree, Top.node).inner_instructions)
    /\ log' = Append(log, [kind |-> "ret", node |-> Top.node, res |-> Ok])
    /\ ret' = Ok
    /\ stack' = Pop
    /\ UNCHANGED <<tree, dpos, dpc, outcome>>
    /\ UNCHANGED bvars
    /\ UNCHANGED hvars

\* run: self.run(child).await yielded Ok(()): on to the next child.
RunChildOk ==
    /\ stack # << >>
    /\ Top.pc = "child"
    /\ ret = Ok
    /\ ret' = None
    /\ stack' = SetTop([Top EXCEPT !.pc = "iter", !.i = NextChild(@)])
    /\ UNCHANGED <<tree, log, dpos, dpc, outcome>>
    /\ UNCHANGED bvars
    /\ UNCHANGED hvars

\* run: self.run(child).await yielded Err(e); ? returns it from run.
RunChildErr ==
    /\ stack # << >>
    /\ Top.pc = "child"
    /\ ret \notin {None, Ok}
    /\ LET r == Question(ret)
       IN  /\ log' = Append(log, [kind |-> "ret", node |-> Top.node, res |-> r])
           /\ ret' = r
    /\ stack' = Pop
    /\ UNCHANGED <<tree, dpos, dpc, outcome>>
    /\ UNCHANGED bvars
    /\ UNCHANGED hvars

(* ------------------- the caller of InstructionPipe::run ---------------- *)

\* The caller runs the pipe over every root, in order.
CallerNext ==
    /\ dpc = "loop"
    /\ dpos <= Len(tree)
    /\ stack' = <<Frame(<<dpos>>)>>
    /\ dpc' = "call"
    /\ UNCHANGED <<tree, ret, log, dpos, outcome>>
    /\ UNCHANGED bvars
    /\ UNCHANGED hvars

\* run on a root returned Ok(()): on to the next root.
CallerOk ==
    /\ dpc = "call"
    /\ stack = << >>
    /\ ret = Ok
    /\ ret' = None
    /\ dpos' = dpos + 1
    /\ dpc' = "loop"
    /\ UNCHANGED <<tree, stack, log, outcome>>
    /\ UNCHANGED bvars
    /\ UNCHANGED hvars

\* run on a root returned an error: the caller stops with it.
CallerErr ==
    /\ dpc = "call"
    /\ stack = << >>
    /\ ret \notin {None, Ok}
    /\ outcome' = ret
    /\ ret' = None
    /\ dpc' = "done"
    /\ UNCHANGED <<tree, stack, log, dpos>>
    /\ UNCHANGED bvars
    /\ UNCHANGED hvars

\* Every root has been run over.
CallerEnd ==
    /\ dpc = "loop"
    /\ dpos > Len(tree)
    /\ outcome' = Ok
    /\ dpc' = "done"
    /\ UNCHANGED <<tree, stack, ret, log, dpos>>
    /\ UNCHANGED bvars
    /\ UNCHANGED hvars

Next ==
    \/ RunDecode \/ RunProcess \/ ProcessorTouches \/ ProcessOk \/ ProcessErr
    \/ RunIterNext \/ RunIterEnd \/ RunChildOk \/ RunChildErr
    \/ CallerNext \/ CallerOk \/ CallerErr \/ CallerEnd

Spec == Init /\ [][Next]_vars

\* The future of run is polled until it is ready, and every processor future
\* it awaits completes: a step that can be taken is eventually taken.
FairSpec == Spec /\ WF_vars(Next)

(* ------------------- two pipes over one tree --------------------------- *)

\* The trees two pipes are run over at once.
SharedTrees == UNION { Forests(n, 1, 0) : n \in 0..(MaxNodes - 1) }

InitTwo ==
    /\ tree \in SharedTrees
    /\ stack = << >>
    /\ ret = None
    /\ log = << >>
    /\ dpos = 1
    /\ dpc = "loop"
    /\ outcome = None
    /\ input = << >>
    /\ bpos = 1
    /\ nested_ixs = Default
    /\ bpc = "idle"
    /\ cur = 1
    /\ other = Fresh

\* The host stops polling the run of one pipe, wherever it stands, and polls
\* the run of the other pipe over the same tree.
SwitchPipe ==
    /\ cur' = 3 - cur
    /\ other' = [stack |-> stack, ret |-> ret, log |-> log, dpos |-> dpos, dpc |-> dpc,
                 outcome |-> outcome]
    /\ stack' = other.stack
    /\ ret' = other.ret
    /\ log' = other.log
    /\ dpos' = other.dpos
    /\ dpc' = other.dpc
    /\ outcome' = other.outcome
    /\ UNCHANGED tree
    /\ UNCHANGED bvars

NextTwo ==
    \/ RunDecode \/ RunProcess \/ ProcessorTouches \/ ProcessOk \/ ProcessErr
    \/ RunIterNext \/ RunIterEnd \/ RunChildOk \/ RunChildErr
    \/ CallerNext \/ CallerOk \/ CallerErr \/ CallerEnd
    \/ SwitchPipe

SpecTwo == InitTwo /\ [][NextTwo]_vars

(* ------------------- properties of the Call-Tree Builder --------------- *)

\* The (context, raw instruction) pair a node was made from.
PairOf(n) == [metadata |-> n.metadata, instruction |-> n.instruction]

\* The pairs of the nodes of a sequence of nodes, in order.
PairsOf(nodes) == [k \in 1..Len(nodes) |-> PairOf(nodes[k])]

\* Concatenation of the children sequences of the first k roots of f.
RECURSIVE ChildrenOfRoots(_, _)
ChildrenOfRoots(f, k) ==
    IF k = 0 THEN << >>
    ELSE ChildrenOfRoots(f, k - 1) \o f[k].inner_instructions

\* Number of nodes of forest f, at every depth.
RECURSIVE NodeCount(_)
NodeCount(f) ==
    IF f = << >> THEN 0
    ELSE 1 + NodeCount(Head(f).inner_instructions) + NodeCount(Tail(f))

\* How many elements of sequence s equal x.
Occurrences(s, x) == Cardinality({ k \in 1..Len(s) : s[k] = x })

Range(s) == { s[k] : k \in 1..Len(s) }

\* C1: once the builder has returned a tree for a non-empty input, every input
\* pair is in the tree as often as it is in the input, as a root or as a direct
\* child of a root, and the tree has no other node.
C1_EveryPairExactlyOnce ==
    (bpc = "done" /\ input # << >>) =>
        LET top2 == PairsOf(nested_ixs \o ChildrenOfRoots(nested_ixs, Len(nested_ixs)))
        IN  /\ \A x \in Range(input) \cup Range(top2) :
                 Occurrences(top2, x) = Occurrences(input, x)
            /\ NodeCount(nested_ixs) = Len(top2)

\* A finished build of four records that put two children under one root.
C1_Witness ==
    /\ bpc = "done"
    /\ Len(input) >= 4
    /\ \E r \in 1..Len(nested_ixs) : Len(nested_ixs[r].inner_instructions) >= 2

\* Number of stack-height-1 records among the first k input records.
HeightOneUpTo(k) ==
    Cardinality({ j \in 1..k : input[j].metadata.stack_height = 1 })

\* The grouping convention of the flat list: the k-th stack-height-1 record
\* (from 0) carries index k, and a deeper record carries the index of the
\* stack-height-1 record that most recently precedes it.
GroupingConvention ==
    \A k \in 1..Len(input) :
        LET m == input[k].metadata
        IN  IF m.stack_height = 1
            THEN m.index = HeightOneUpTo(k - 1)
            ELSE /\ HeightOneUpTo(k) >= 1
                 /\ m.index = HeightOneUpTo(k) - 1

\* The last stack-height-1 record at or before place k of the input.
LastHeightOne(k) ==
    input[CHOOSE j \in 1..k :
            /\ input[j].metadata.stack_height = 1
            /\ \A l \in (j + 1)..k : input[l].metadata.stack_height # 1]

\* C2: for an input that follows the grouping convention, the tree returned
\* has every record of stack height > 1 as a child of the root made from the
\* stack-height-1 record that most recently precedes it, and nowhere else.
C2_GroupedUnderOwningRoot ==
    (bpc = "done" /\ GroupingConvention) =>
        \A k \in 1..Len(input) :
            input[k].metadata.stack_height > 1 =>
                \E r \in 1..Len(nested_ixs) :
                    /\ PairOf(nested_ixs[r]) = LastHeightOne(k)
                    /\ input[k] \in Range(PairsOf(nested_ixs[r].inner_instructions))
                    /\ input[k] \notin Range(PairsOf(nested_ixs))

\* C3: the tree returned has as many roots as the input has records of
\* stack height 1.
C3_RootsAreHeightOneRecords ==
    bpc = "done" => Len(nested_ixs) = HeightOneUpTo(Len(input))

\* The place of pair x in the input (every record is its own pair).
PlaceOf(x) == CHOOSE k \in 1..Len(input) : input[k] = x

\* C4: at every point of the build, the children of each root are input
\* records, and they stand in the order in which they stand in the input.
C4_ChildrenKeepInputOrder ==
    \A r \in 1..Len(nested_ixs) :
        LET ch == PairsOf(nested_ixs[r].inner_instructions)
        IN  /\ \A a \in 1..Len(ch) : ch[a] \in Range(input)
            /\ \A a, b \in 1..Len(ch) : a < b => PlaceOf(ch[a]) < PlaceOf(ch[b])

\* A finished build in which one root has two children.
C4_Witness ==
    /\ bpc = "done"
    /\ \E r \in 1..Len(nested_ixs) : Len(nested_ixs[r].inner_instructions) = 2

\* C5: the empty input never faults, and the tree returned for it has no root.
C5_EmptyInputEmptyTree ==
    input = << >> =>
        /\ bpc # "panic"
        /\ bpc = "done" => nested_ixs = << >>

\* The builder has returned for the empty input.
C5_Witness == input = << >> /\ bpc = "done"

(* ------------------- properties of InstructionPipe::run ---------------- *)

\* Path a names a proper ancestor of the node named by path b.
IsAncestor(a, b) == Len(a) < Len(b) /\ SubSeq(b, 1, Len(a)) = a

\* The node named by x is in the subtree rooted at the node named by n.
InSubtree(n, x) == x = n \/ IsAncestor(n, x)

\* The paths of the nodes of forest f, whose roots are under path prefix, in
\* pre-order.
RECURSIVE PreOrderFrom(_, _, _)
PreOrderFrom(f, prefix, k) ==
    IF k > Len(f) THEN << >>
    ELSE <<Append(prefix, k)>>
         \o PreOrderFrom(f[k].inner_instructions, Append(prefix, k), 1)
         \o PreOrderFrom(f, prefix, k + 1)

PreOrder == PreOrderFrom(tree, << >>, 1)

\* Place of path x in the pre-order of the tree.
PreOrderPlace(x) == CHOOSE k \in 1..Len(PreOrder) : PreOrder[k] = x

\* The pipe's decoder recognises the raw instruction of the node at path.
Matches(path) == NodeAt(tree, path).instruction.program_id \in PipeDecoder

Children(path) == NodeAt(tree, path).inner_instructions

\* The nodes of the events among the first k of the log that are of one of
\* the kinds and lie in the subtree of n, in the order of the log.
EventNodes(kinds, n, k) ==
    LET Sel(e) == e.kind \in kinds /\ InSubtree(n, e.node)
        sel == SelectSeq(SubSeq(log, 1, k), Sel)
    IN  [j \in 1..Len(sel) |-> sel[j].node]

\* C6: whenever the decoder or the processor is invoked for a node, the
\* processor invocation of each of its ancestors that the decoder matches has
\* completed before.
C6_PreOrder ==
    \A j \in 1..Len(log) :
        log[j].kind \in {"decode", "process"} =>
            \A a \in { SubSeq(log[j].node, 1, l) : l \in 1..(Len(log[j].node) - 1) } :
                Matches(a) =>
                    \E k \in 1..(j - 1) : log[k].kind \in {"ok", "fail"} /\ log[k].node = a

\* The processor runs for a node two levels under a matched node whose own
\* processor invocation has completed.
C6_Witness ==
    \E j, k \in 1..Len(log) :
        /\ k < j
        /\ log[k].kind = "ok"
        /\ log[j].kind = "process"
        /\ IsAncestor(log[k].node, log[j].node)
        /\ Len(log[j].node) = Len(log[k].node) + 2

\* C7: after a processor invocation for node N has failed, neither the
\* decoder nor the processor is invoked for a node that comes after N in the
\* pre-order of the tree (roots after N's root included).
C7_FailFast ==
    \A k \in 1..Len(log) :
        log[k].kind = "fail" =>
            \A j \in (k + 1)..Len(log) :
                log[j].kind \in {"decode", "process"} =>
                    PreOrderPlace(log[j].node) <= PreOrderPlace(log[k].node)

\* The caller has ended after a failure at a node that is not a root and has
\* a child under it and a later root after it.
C7_Witness ==
    /\ dpc = "done"
    /\ \E k \in 1..Len(log) :
         /\ log[k].kind = "fail"
         /\ LET n == log[k].node
            IN  /\ Len(n) = 2
                /\ Children(n) # << >>
                /\ n[1] < Len(tree)

\* C8: when run returns for a node and no processor invocation failed in its
\* subtree, the processor has been invoked exactly for the nodes of the
\* subtree that the decoder matches, once each, in pre-order.
C8_ProcessedOncePerMatchInPreOrder ==
    \A k \in 1..Len(log) :
        (/\ log[k].kind = "ret"
         /\ EventNodes({"fail"}, log[k].node, k) = << >>) =>
            EventNodes({"process"}, log[k].node, k)
                = SelectSeq(<<log[k].node>> \o PreOrderFrom(Children(log[k].node), log[k].node, 1),
                            Matches)

\* run has returned Ok for a root under which the processor ran for two nodes
\* and the decoder missed one.
C8_Witness ==
    \E k \in 1..Len(log) :
        /\ log[k].kind = "ret"
        /\ log[k].res = Ok
        /\ Len(log[k].node) = 1
        /\ Len(EventNodes({"process"}, log[k].node, k)) >= 2
        /\ Len(EventNodes({"decode"}, log[k].node, k)) >= 3
        /\ \E x \in Range(EventNodes({"decode"}, log[k].node, k)) : ~Matches(x)

\* The children of the node at path n, in order.
ChildPaths(n) == [c \in 1..Len(Children(n)) |-> Append(n, c)]

\* C9: after a decode miss at a node the processor is never invoked for that
\* node, the run goes on to the node's first child at once, and when run
\* returns for the node it has either visited every child in order and
\* returns Ok, or returns the error of a processor failure further down.
C9_DecodeMissIsNoError ==
    \A j \in 1..Len(log) :
        (log[j].kind = "decode" /\ log[j].res = None) =>
            LET n == log[j].node
            IN  /\ \A k \in 1..Len(log) : ~(log[k].kind = "process" /\ log[k].node = n)
                /\ (j < Len(log) /\ Children(n) # << >>) =>
                       (log[j + 1].kind = "decode" /\ log[j + 1].node = Append(n, 1))
                /\ (j < Len(log) /\ Children(n) = << >>) =>
                       (log[j + 1].kind = "ret" /\ log[j + 1].node = n /\ log[j + 1].res = Ok)
                /\ \A k \in 1..Len(log) :
                       (log[k].kind = "ret" /\ log[k].node = n) =>
                           IF log[k].res = Ok
                           THEN SelectSeq(EventNodes({"decode"}, n, k),
                                          LAMBDA x : Len(x) = Len(n) + 1) = ChildPaths(n)
                           ELSE \E f \in 1..(k - 1) :
                                    /\ log[f].kind = "fail"
                                    /\ IsAncestor(n, log[f].node)
                                    /\ log[k].res = Err(log[f].err)

\* run has returned Ok for a node the decoder missed, after visiting its two
\* children.
C9_Witness ==
    \E j, k \in 1..Len(log) :
        /\ j < k
        /\ log[j].kind = "decode" /\ log[j].res = None
        /\ log[k].kind = "ret" /\ log[k].node = log[j].node /\ log[k].res = Ok
        /\ Len(Children(log[j].node)) >= 2

\* C10: every return of run is Ok exactly when no processor invocation in the
\* subtree it ran over failed; otherwise exactly one invocation failed and
\* run returns that invocation's error; and the processor is invoked at most
\* once for a node.
C10_ReturnsTheProcessorsError ==
    /\ \A k \in 1..Len(log) :
         log[k].kind = "ret" =>
            LET fails == SelectSeq(SubSeq(log, 1, k),
                                   LAMBDA e : e.kind = "fail" /\ InSubtree(log[k].node, e.node))
            IN  /\ log[k].res = Ok <=> fails = << >>
                /\ log[k].res # Ok => (Len(fails) = 1 /\ log[k].res = Err(fails[1].err))
    /\ \A j, k \in 1..Len(log) :
         (log[j].kind = "process" /\ log[k].kind = "process" /\ log[j].node = log[k].node)
            => j = k

\* run on a root has returned the error e2 of a processor two levels down.
C10_Witness ==
    \E f, k \in 1..Len(log) :
        /\ f < k
        /\ log[f].kind = "fail" /\ log[f].err = "e2" /\ Len(log[f].node) = 3
        /\ log[k].kind = "ret" /\ Len(log[k].node) = 1
        /\ IsAncestor(log[k].node, log[f].node)
        /\ log[k].res = Err("e2")

\* C11: at every point of the build, no child of a root has children of its
\* own, whatever the stack heights of the records.
C11_AtMostTwoLevels ==
    \A r \in 1..Len(nested_ixs) :
        \A c \in 1..Len(nested_ixs[r].inner_instructions) :
            nested_ixs[r].inner_instructions[c].inner_instructions = << >>

\* A finished build in which a root has a child of stack height 2 followed by
\* a child of stack height 3.
C11_Witness ==
    /\ bpc = "done"
    /\ \E r \in 1..Len(nested_ixs) :
         LET kids == nested_ixs[r].inner_instructions
         IN  /\ Len(kids) >= 2
             /\ kids[1].metadata.stack_height = 2
             /\ kids[2].metadata.stack_height = 3

C14_AppendsUnderRootAtIndex ==
    [][(/\ bpc = "loop"
        /\ bpos <= Len(input)
        /\ input[bpos].metadata.stack_height > 1
        /\ input[bpos].metadata.index >= 1
        /\ input[bpos].metadata.index < Len(nested_ixs)) =>
          LET i == input[bpos].metadata.index
              node == [metadata |-> input[bpos].metadata,
                       instruction |-> input[bpos].instruction,
                       inner_instructions |-> << >>]
          IN  /\ Len(nested_ixs') = Len(nested_ixs)
              /\ \A r \in 1..Len(nested_ixs) :
                   IF r = i + 1
                   THEN nested_ixs'[r] =
                          [nested_ixs[r] EXCEPT !.inner_instructions = Append(@, node)]
                   ELSE nested_ixs'[r] = nested_ixs[r]]_vars

\* A finished build in which a child stands under the root at the position
\* its index names, and that root was not made from the input record at that
\* position.
C14_Witness ==
    /\ bpc = "done"
    /\ \E r \in 2..Len(nested_ixs) :
         /\ nested_ixs[r].inner_instructions # << >>
         /\ nested_ixs[r].inner_instructions[1].metadata.index = r - 1
         /\ PairOf(nested_ixs[r]) # input[r]

\* C15: a loop iteration on a record of stack height > 1 and index i >= 1,
\* with i at least the number of roots so far, ends the build in the fault,
\* and nothing follows the fault: no tree and no error value is returned.
C15_OutOfRangeIndexFaults ==
    /\ [][(/\ bpc = "loop"
           /\ bpos <= Len(input)
           /\ input[bpos].metadata.stack_height > 1
           /\ input[bpos].metadata.index >= 1
           /\ input[bpos].metadata.index >= Len(nested_ixs)) =>
             (bpc' = "panic" /\ nested_ixs' = nested_ixs)]_vars
    /\ [][bpc # "panic"]_vars

\* The build has faulted on a record after at least one root was appended.
C15_Witness == bpc = "panic" /\ Len(nested_ixs) >= 1 /\ bpos >= 2

\* C19: at every point of the build the roots stand in the order of their
\* records in the input, and a step of the build leaves every root at its
\* position.
C19_RootsKeepInputOrder ==
    /\ [](\A a, b \in 1..Len(nested_ixs) :
            a < b => PlaceOf(PairOf(nested_ixs[a])) < PlaceOf(PairOf(nested_ixs[b])))
    /\ [][\A r \in 1..Len(nested_ixs) :
            /\ r <= Len(nested_ixs')
            /\ PairOf(nested_ixs'[r]) = PairOf(nested_ixs[r])]_vars

\* A finished build with three roots, one of them with a child.
C19_Witness ==
    /\ bpc = "done"
    /\ Len(nested_ixs) >= 3
    /\ \E r \in 1..Len(nested_ixs) : nested_ixs[r].inner_instructions # << >>

\* C16: a processor invocation is followed in the run by nothing but its own
\* completion, and at most one activation of run is inside a processor
\* invocation, the innermost one.
C16_OneInvocationAtATime ==
    /\ \A j \in 1..(Len(log) - 1) :
         log[j].kind = "process" =>
            (log[j + 1].kind \in {"ok", "fail"} /\ log[j + 1].node = log[j].node)
    /\ \A f \in 1..Len(stack) : stack[f].pc = "await" => f = Len(stack)
    /\ (Len(log) > 0 /\ log[Len(log)].kind = "process") =>
          (stack # << >> /\ Top.pc = "await" /\ Top.node = log[Len(log)].node)

\* A child's processor invocation is in progress after its parent's has
\* completed.
C16_Witness ==
    /\ Len(stack) >= 2
    /\ Top.pc = "await"
    /\ \E k \in 1..Len(log) : log[k].kind = "ok" /\ log[k].node = stack[Len(stack) - 1].node

\* C18: every processor invocation is handed the context of the node it is
\* made for, what the decoder returned for that node's raw instruction, and
\* that node's children in their order.
C18_ProcessorGetsTheNodesOwnTuple ==
    \A j \in 1..Len(log) :
        log[j].kind = "process" =>
            LET n == NodeAt(tree, log[j].node)
            IN  /\ log[j].arg[1] = n.metadata
                /\ log[j].arg[2] = decode_instruction(PipeDecoder, n.instruction)
                /\ \E k \in 1..(j - 1) :
                      /\ log[k].kind = "decode"
                      /\ log[k].node = log[j].node
                      /\ log[k].res = log[j].arg[2]
                /\ log[j].arg[3] = n.inner_instructions

\* The processor has been invoked for a node that is not a root and has two
\* children, after it was invoked for that node's parent.
C18_Witness ==
    \E j, k \in 1..Len(log) :
        /\ k < j
        /\ log[k].kind = "process" /\ log[j].kind = "process"
        /\ Len(log[j].node) = 2
        /\ IsAncestor(log[k].node, log[j].node)
        /\ Len(log[j].arg[3]) = 2
        /\ log[j].arg[1] # log[k].arg[1]

\* C17: no step of a run changes the tree, whatever the processor does to the
\* tuple it was handed.
C17_RunLeavesTheTreeAlone == [][tree' = tree]_vars

\* A processor has rewritten the tuple it was handed for a node that has
\* children, and the node still has them.
C17_Witness ==
    /\ stack # << >>
    /\ Top.pc = "await"
    /\ Top.arg # None
    /\ Top.arg[3] = << >>
    /\ NodeAt(tree, Top.node).inner_instructions # << >>
    /\ Top.arg[1] # NodeAt(tree, Top.node).metadata

\* C20: every activation of run returns (the processor completing each time
\* it is invoked); the decoder is never attempted twice for a node; and when
\* run returns for a node with no processor failure in its subtree, the
\* decoder has been attempted for exactly the nodes of the subtree, once each.
C20_RunTerminatesDecodingEachNodeOnce ==
    /\ ((stack # << >>) ~> (stack = << >>))
    /\ [](\A j, k \in 1..Len(log) :
            (log[j].kind = "decode" /\ log[k].kind = "decode" /\ log[j].node = log[k].node)
               => j = k)
    /\ [](\A k \in 1..Len(log) :
            (/\ log[k].kind = "ret"
             /\ EventNodes({"fail"}, log[k].node, k) = << >>) =>
                EventNodes({"decode"}, log[k].node, k)
                    = <<log[k].node>> \o PreOrderFrom(Children(log[k].node), log[k].node, 1))

\* run has returned Ok to the caller for a root whose subtree has three
\* levels, the decoder attempted for each of its nodes.
C20_Witness ==
    /\ stack = << >>
    /\ ret = Ok
    /\ Len(log) > 0
    /\ log[Len(log)].kind = "ret"
    /\ Len(log[Len(log)].node) = 1
    /\ \E x \in Range(EventNodes({"decode"}, log[Len(log)].node, Len(log))) : Len(x) = 3
    /\ Len(EventNodes({"decode"}, log[Len(log)].node, Len(log))) >= 4

\* What pipe c has logged, where its caller stands and what its caller ended
\* with.
PipeLog(c) == IF cur = c THEN log ELSE other.log

PipeDpc(c) == IF cur = c THEN dpc ELSE other.dpc

PipeOutcome(c) == IF cur = c THEN outcome ELSE other.outcome

\* s is a prefix of t.
IsPrefix(s, t) == Len(s) <= Len(t) /\ SubSeq(t, 1, Len(s)) = s

\* What a pipe with decoder D logs when it is run alone over the nodes i, i + 1,
\* ... of forest f (found under path prefix) until one of the runs fails, its
\* processor failing exactly where, and with the error that, log L records.
RECURSIVE SoloOver(_, _, _, _, _)
SoloOver(f, prefix, i, D, L) ==
    IF i > Len(f) THEN << >>
    ELSE LET n == Append(prefix, i)
             d == decode_instruction(D, f[i].instruction)
             failed == { e \in Errors :
                           \E j \in 1..Len(L) :
                               L[j].kind = "fail" /\ L[j].node = n /\ L[j].err = e }
             dec == <<[kind |-> "decode", node |-> n, res |-> d]>>
             proc == <<[kind |-> "process", node |-> n, arg |-> ProcessorInput(f[i], d)]>>
         IN  IF d # None /\ failed # {}
             THEN LET e == CHOOSE e \in failed : TRUE
                  IN  dec \o proc \o <<[kind |-> "fail", node |-> n, err |-> e],
                                       [kind |-> "ret", node |-> n, res |-> Err(e)]>>
             ELSE LET head == IF d # None
                              THEN dec \o proc \o <<[kind |-> "ok", node |-> n]>>
                              ELSE dec
                      kids == SoloOver(f[i].inner_instructions, n, 1, D, L)
                      r == IF kids = << >> THEN Ok ELSE kids[Len(kids)].res
                      mine == head \o kids \o <<[kind |-> "ret", node |-> n, res |-> r]>>
                  IN  IF r # Ok THEN mine
                      ELSE mine \o SoloOver(f, prefix, i + 1, D, L)

\* What the caller of a pipe run alone ends with, given the pipe's solo log.
SoloOutcome(S) == IF S = << >> THEN Ok ELSE S[Len(S)].res

\* Pipe c has so far done what it does alone, and once its caller has ended
\* it has done all of it and ended with the same result.
AsAlone(c) ==
    LET L == PipeLog(c)
        S == SoloOver(tree, << >>, 1, DecoderOf(c), L)
    IN  /\ IsPrefix(L, S)
        /\ PipeDpc(c) = "done" => (L = S /\ PipeOutcome(c) = SoloOutcome(S))

\* A pipe run alone does what SoloOver says.
SoloOverIsTheSoloRun == AsAlone(1)

\* C12: however the steps of the runs of two pipes over one tree interleave,
\* each pipe decodes and invokes its processor for the same nodes with the
\* same arguments, in the same order, as when it runs alone, ends with the
\* same result, and the tree is never changed.
C12_TwoPipesDoNotInterfere ==
    /\ [][tree' = tree]_vars
    /\ [](AsAlone(1) /\ AsAlone(2))

\* Both pipes are in the middle of their runs over the tree, each with a
\* processor invocation behind it, one of them two levels down.
C12_Witness ==
    /\ stack # << >>
    /\ other.stack # << >>
    /\ \E j \in 1..Len(log) : log[j].kind = "ok"
    /\ \E j \in 1..Len(other.log) : other.log[j].kind = "ok" /\ Len(other.log[j].node) = 2

====
